---- MODULE Spec2Model ----
(***************************************************************************)
(* Model of backend/src/matrix_client.py: the MatrixClient wrapper, its    *)
(* sync loop (_start_syncing), its lifecycle (initialize / close), the     *)
(* callback registry, the two event handlers (_on_message and              *)
(* _on_encrypted) and the key recovery steps the latter calls.             *)
(*                                                                         *)
(* The homeserver and the matrix-nio library are the environment: the      *)
(* server keeps a timeline of events 1..serverHead; a sync request         *)
(* carries the wrapper's `since` value; the library hands every event of   *)
(* a response to the registered handler before sync() returns.             *)
(*                                                                         *)
(* asyncio is cooperative: code between two awaits is one atomic step.     *)
(* Where a claim is about the order of statements inside one atomic block  *)
(* the block is split into sub-steps and every other action is disabled    *)
(* until the block is finished (see Quiet).  The tasks are kept as a bag:  *)
(* two tasks in the same state are not told apart.                         *)
(***************************************************************************)
EXTENDS Integers, Sequences, FiniteSets, Bags, TLC

(* ------------------------------ bounds -------------------------------- *)
MaxEvents == 2        \* length of the server timeline
MaxLoops == 2         \* _start_syncing tasks alive or about to be created
MaxCallbacks == 2     \* length of _message_callbacks
MaxCrashes == 1       \* process restarts
MaxImports == 2       \* counted runs of the backup unlock step
MaxFailures == 3      \* counted undecryptable events of one sender
MaxInvitees == 2      \* length of an invitee list
MaxRooms == 2         \* rooms created
MaxDeliveries == 2    \* process_matrix_message calls per event id
MaxRecords == 102     \* records handed to store_message_callback

(* --------------------------- value encodings -------------------------- *)
\* Python None for a sync token / next_batch (tokens are 0..MaxEvents).
None == -1

\* `if len(recent_messages) > 100` (main.py line 128).
BufferCap == 100
\* "no request issued yet in this run" (ghost only).
Unset == None - 1

Tokens == 0..MaxEvents

\* The user id of the agent (settings.matrix_user_id) and a counterparty.
Senders == {"self", "other"}

\* Behaviour of a registered callback: returns normally or raises.
CallbackKinds == {"ok", "raise"}

\* Outcome of one call of client.crypto.decrypt_megolm_event.
DecryptOutcomes == {"ok", "none", "raise"}

\* Outcome of the calls a recovery step makes (open_backup_v1 ...,
\* request_room_key, keys_query, to_device).
StepOutcomes == {"ok", "raise"}

\* Events a sync response can carry.  type "text" is a RoomMessageText,
\* type "megolm" a MegolmEvent.  has_decrypted says whether the event object
\* has a `decrypted` attribute and dec is the value of that attribute (a
\* text event with dec = TRUE was decrypted by the library; a plaintext
\* message has dec = FALSE); d1 / d2 are the outcomes of the first and of
\* the second call of decrypt_megolm_event (d2 is only read when d1 raised);
\* imp and req are the outcomes of the calls made by
\* _import_recovery_key_if_exists and by _request_missing_keys for this
\* event (only read on the paths that reach them).  direct says that the
\* room is a one-to-one room.  event_id, room_id and body are what the
\* event object holds; plain is the text inside the payload of a
\* MegolmEvent, which decryption yields.
TextEvents ==
    { e \in [type : {"text"}, sender : Senders, room_encrypted : BOOLEAN,
             has_decrypted : BOOLEAN, dec : BOOLEAN,
             d1 : {"none"}, d2 : {"none"}, imp : {"ok"}, req : {"ok"},
             direct : {FALSE}, event_id : {"$event"}, room_id : {"!room1"},
             body : {"ping"}, plain : {"ping"}] :
         ~e.has_decrypted => ~e.dec }

MegolmEvents ==
    { e \in [type : {"megolm"}, sender : Senders, room_encrypted : {TRUE},
             has_decrypted : {FALSE}, dec : {FALSE},
             d1 : DecryptOutcomes, d2 : DecryptOutcomes,
             imp : StepOutcomes, req : StepOutcomes,
             direct : BOOLEAN, event_id : {"$event"}, room_id : {"!room1"},
             body : {"ciphertext"}, plain : {"ping"}] :
         /\ e.d1 # "raise" => (e.d2 = "none" /\ e.imp = "ok")
         /\ (e.d1 # "none" /\ ~(e.d1 = "raise" /\ e.d2 = "none")) => e.req = "ok" }

EventKinds == TextEvents \cup MegolmEvents

VARIABLES
    client,             \* self.client: "None" or "AsyncClient"
    syncing,            \* self.syncing
    initialized,        \* self._initialized
    sync_token,         \* self._sync_token
    message_callbacks,  \* self._message_callbacks
    initializing,       \* initialize() calls suspended between line 65 and 110
    tasks,              \* the _start_syncing tasks: a bag of task states
    serverHead,         \* the homeserver's timeline holds events 1..serverHead
    crashes,            \* number of process restarts so far
    returned,           \* ghost: events some sync response carried
    handled,            \* ghost: events that were handed to their handler
    lastEmit,           \* ghost: the last handler call, its event and its result
    prevCursor,         \* ghost: _sync_token at the last crash
    firstSince,         \* ghost: `since` of the first request of this run
    lastNb,             \* ghost: next_batch of the last round of this run that had one
    recovery_key,       \* settings.matrix_recovery_key is set
    importRuns,         \* ghost: runs of the backup unlock step (line 223) in this process
    undecryptable,      \* ghost: per sender, the encrypted events that stayed undecrypted
    closed,             \* ghost: the close() calls since the last initialize()
    callbacksAtInit,    \* ghost: len(_message_callbacks) when initialize() last returned
    send,               \* ghost: the last send_message call and how far it got
    app,                \* main.py: the application's startup / shutdown state
    crm,                \* message_service.room_ticket_mapping and what reached Odoo
    rooms               \* the room creation requests the homeserver accepted

vars == <<client, syncing, initialized, sync_token, message_callbacks,
          initializing, tasks, serverHead, crashes, returned, handled,
          lastEmit, prevCursor, firstSince, lastNb,
          recovery_key, importRuns, undecryptable, closed,
          callbacksAtInit, send, app, crm, rooms>>

\* send_message, the application around the client, the CRM side and the
\* rooms the client created.
apiVars == <<send, app, crm, rooms>>

\* What the lifecycle and the sync loop neither read nor write.
pipeVars == <<lastEmit, recovery_key, importRuns, undecryptable, callbacksAtInit, apiVars>>

IdleTask == [pc |-> "idle", since |-> None, nxt |-> 1, hi |-> 0, nb |-> None, step |-> 0]

\* lastEmit before any handler call.
NoEmit == [called |-> FALSE]

\* closed when no close() has run since the last initialize(): n counts the
\* close() calls in a row, running says that a loop had issued requests and
\* had not returned when close() was last called, err that a close() call
\* raised.
NotClosed == [n |-> 0, running |-> FALSE, err |-> FALSE]

\* send before any send_message call: pc says whether a call is suspended
\* in room_send, session what the client was when the last call began,
\* result how the last call ended.
NoSend == [pc |-> "idle", session |-> "none", result |-> "none"]

\* Event ids and room ids of the records that reach the CRM side.
EventIds == {"$event", "$event2"}

RoomIds == {"!room1", "!room2"}

\* crm.last before any process_matrix_message call: kind is "create" when
\* the call created a ticket, "add" when it added a ticket message, "fail"
\* when it returned success=False; raised says that the call raised.
NoCall == [kind |-> "none", room |-> "none", ticket |-> None, raised |-> FALSE]

\* crm.reply before any process_odoo_message call: the route that made the
\* call, the rooms the call tried to send into and those a message went
\* into, what the call returned and the HTTP status the route answered.
NoReply == [route |-> "none", ticket |-> None, tried |-> <<>>, sent |-> <<>>,
            success |-> FALSE, status |-> 0]

\* app before the startup event; crm with an empty room_ticket_mapping and
\* nothing written to Odoo: mapping is room_ticket_mapping (None for a room
\* without an entry), created lists the rooms for which Odoo created a
\* ticket (the ticket's id is its position), effects counts, per event id,
\* the tickets created and ticket messages added for it, seen counts the
\* calls of process_matrix_message with a record of that event id.
NewApp == [state |-> "new", registered |-> <<>>, cause |-> "none",
           initRaised |-> FALSE, save |-> "none", webhook |-> [route |-> "none"],
           recent_messages |-> <<>>, delivered |-> 0]

NewCrm == [mapping |-> [r \in RoomIds |-> None], created |-> <<>>,
           effects |-> [id \in EventIds |-> 0],
           seen |-> [id \in EventIds |-> 0],
           last |-> NoCall, reply |-> NoReply]

\* What closed.n = 1, 2 stand for: further calls in a row are not told apart.
CloseCalls == <<"once", "again">>


(* ------------------------- callback registry -------------------------- *)
Indices(cbs) == [i \in 1..Len(cbs) |-> i]

\* Index of the first callback that raises, 0 when none does.
FirstRaise(cbs) ==
    IF \E i \in 1..Len(cbs) : cbs[i] = "raise"
    THEN CHOOSE i \in 1..Len(cbs) :
            /\ cbs[i] = "raise"
            /\ \A j \in 1..(i - 1) : cbs[j] # "raise"
    ELSE 0

\* `for callback in self._message_callbacks: await callback(message_data)`
\* (_on_encrypted): the first raising callback ends the loop and the
\* exception leaves the loop.
CallbacksUnguarded(cbs) ==
    LET r == FirstRaise(cbs) IN
    [recv |-> IF r = 0 THEN Indices(cbs) ELSE [i \in 1..r |-> i],
     exc  |-> r # 0]

\* The same loop with `try: await callback(...) except Exception: log`
\* around every call (_on_message).
CallbacksGuarded(cbs) ==
    [recv |-> Indices(cbs), exc |-> FALSE]

(* ----------------------------- handlers ------------------------------- *)
\* Result of a handler body: was a record built and offered (emitted), which
\* callbacks were invoked with it (recv), is an exception on its way out of
\* the body (exc), the record that was built (record: empty or one
\* message_data), the calls the body made, in order (steps).
Dropped == [emitted |-> FALSE, recv |-> <<>>, exc |-> FALSE, record |-> {}, steps |-> <<>>]
Raising == [emitted |-> FALSE, recv |-> <<>>, exc |-> TRUE, record |-> {}, steps |-> <<>>]

\* Variant: `decrypted` says whether the event has the attribute.
MessageDataHasAttr(ev) ==
    [event_id |-> ev.event_id, room_id |-> ev.room_id, sender |-> ev.sender,
     body |-> ev.body, decrypted |-> ev.has_decrypted]

\* message_data of _on_message (lines 600-611).
MessageData(ev) ==
    [event_id |-> ev.event_id, room_id |-> ev.room_id, sender |-> ev.sender,
     body |-> ev.body,
     decrypted |-> IF ev.has_decrypted THEN ev.dec ELSE FALSE]

\* Body of the try block of _on_message.
OnMessageBody(ev, cbs) ==
    IF ev.sender = "self" THEN Dropped
    ELSE IF ev.room_encrypted /\ ~ev.has_decrypted THEN Dropped
    ELSE LET c == CallbacksGuarded(cbs) IN
         [emitted |-> TRUE, recv |-> c.recv, exc |-> c.exc,
          record |-> {MessageData(ev)}, steps |-> <<>>]

\* _import_recovery_key_if_exists (lines 212-243) and _request_missing_keys
\* (lines 286-363): the whole body is inside try / except Exception, so
\* whatever the calls inside do, nothing leaves (exc); caught says that the
\* except clause was entered.  Without a configured recovery key the import
\* returns before it calls anything (lines 215-218).
ImportRecoveryKey(ev) ==
    [exc |-> FALSE,
     caught |-> recovery_key /\ ev.imp = "raise",
     steps |-> IF recovery_key THEN <<"open_backup">> ELSE <<>>]

\* request_room_key and keys_query sit in two separate try blocks (lines
\* 302-306, 309-360): the second is attempted whatever the first did.
RequestMissingKeys(ev) ==
    [exc |-> FALSE,
     caught |-> ev.req = "raise",
     steps |-> <<"request_room_key", "keys_query">>]

\* The value `decrypted` holds at line 258: "ok" a decrypted message,
\* "none" a falsy result; "raise" when no value is reached because the
\* retry (or the recovery before it) raised.
Decrypted(ev) ==
    IF ev.d1 = "raise"
    THEN IF ImportRecoveryKey(ev).exc THEN "raise" ELSE ev.d2
    ELSE ev.d1

\* What decrypt_megolm_event returns when it succeeds: the event with the
\* payload's text as body.
DecryptMegolmEvent(ev) ==
    [event_id |-> ev.event_id, sender |-> ev.sender, body |-> ev.plain]

\* Variant: the record is built from the encrypted event itself.
DecryptedMessageDataRaw(ev) ==
    [event_id |-> ev.event_id, room_id |-> ev.room_id, sender |-> ev.sender,
     body |-> ev.body, decrypted |-> FALSE, encrypted_event_id |-> ev.event_id]

\* message_data of _on_encrypted (lines 260-270).
DecryptedMessageData(ev) ==
    LET decrypted == DecryptMegolmEvent(ev) IN
    [event_id |-> decrypted.event_id, room_id |-> ev.room_id,
     sender |-> decrypted.sender, body |-> decrypted.body,
     decrypted |-> TRUE, encrypted_event_id |-> ev.event_id]

\* Variant: the except clause of lines 253-256 retries until a call of
\* decrypt_megolm_event does not raise (one more round here).
RetryStepsAgain(ev) ==
    IF ev.d1 = "raise"
    THEN <<"import">> \o ImportRecoveryKey(ev).steps \o <<"decrypt">>
         \o (IF ev.d2 = "raise"
             THEN <<"import">> \o ImportRecoveryKey(ev).steps \o <<"decrypt">>
             ELSE <<>>)
    ELSE <<>>

\* The calls of the except clause of lines 253-256: recovery, then the
\* second call of decrypt_megolm_event.
RetrySteps(ev) ==
    IF ev.d1 = "raise"
    THEN <<"import">> \o ImportRecoveryKey(ev).steps \o <<"decrypt">>
    ELSE <<>>

\* The calls of lines 250-256.
DecryptSteps(ev) == <<"decrypt">> \o RetrySteps(ev)

\* Body of the try block of _on_encrypted.
OnEncryptedBody(ev, cbs) ==
    LET d == Decrypted(ev) IN
    IF d = "raise" THEN [Raising EXCEPT !.steps = DecryptSteps(ev)]
    ELSE IF d = "ok"
    THEN LET c == CallbacksUnguarded(cbs) IN
         [emitted |-> TRUE, recv |-> c.recv, exc |-> c.exc,
          record |-> {DecryptedMessageData(ev)}, steps |-> DecryptSteps(ev)]
    ELSE [Dropped EXCEPT !.exc = RequestMissingKeys(ev).exc,
                         !.steps = DecryptSteps(ev) \o <<"request_missing_keys">>
                                       \o RequestMissingKeys(ev).steps]

\* `except Exception as e: logger.error(...)` closing a handler: whatever
\* the body raised, the handler returns normally.  caught records that the
\* clause was entered.
Catch(r) == [r EXCEPT !.exc = FALSE] @@ [caught |-> r.exc]

\* A handler body that is not wrapped in try / except.
NoCatch(r) == r @@ [caught |-> FALSE]

OnMessage(ev, cbs) == Catch(OnMessageBody(ev, cbs))

\* Variant: _on_encrypted without its closing except clause.
OnEncryptedNoCatch(ev, cbs) == NoCatch(OnEncryptedBody(ev, cbs))

OnEncrypted(ev, cbs) == Catch(OnEncryptedBody(ev, cbs))

\* nio's callback dispatch: RoomMessageText goes to _on_message,
\* MegolmEvent to _on_encrypted (add_event_callback, lines 86-87).
Handle(ev, cbs) ==
    IF ev.type = "text" THEN OnMessage(ev, cbs) ELSE OnEncrypted(ev, cbs)

\* How often call c occurs in a sequence of calls.
Count(steps, c) == Cardinality({i \in 1..Len(steps) : steps[i] = c})


(* ----------------------------- sync loop ------------------------------ *)
\* Variant: the cursor is assigned whatever the response holds.
NextTokenUnconditional(token, nb) == nb

\* Lines 529-533: `if next_batch: self._sync_token = next_batch`.
NextToken(token, nb) == IF nb # None THEN nb ELSE token

\* Variant: the rooms are walked before the cursor is updated.
RoundOrderProcessFirst == <<"process", "record">>

\* The statements that follow a truthy sync response, in source order:
\* the cursor update (lines 529-533), then the walk over the joined rooms
\* that calls _process_room_events (lines 535-571).
RoundOrder == <<"record", "process">>

\* Variant: an exception of the sync call ends the loop.
AfterFailedSyncBreak(outcome) ==
    IF outcome = "raise" THEN "done" ELSE "sleep5"

\* Where the loop goes when `await self.client.sync(...)` does not yield a
\* response to process: `except Exception` sleeps 30 s (lines 582-585), a
\* falsy response sleeps 5 s (lines 573-577).
AfterFailedSync(outcome) ==
    IF outcome = "raise" THEN "sleep30" ELSE "sleep5"

\* `while self.syncing and self.client` (line 500).
LoopCondition == syncing /\ client # "None"

Task(pc) == [IdleTask EXCEPT !.pc = pc]

TaskSet == BagToSet(tasks)

\* The bag with one copy of task t replaced by u.
Replace(t, u) == (tasks (-) SetToBag({t})) (+) SetToBag({u})

\* A task that has not returned: scheduled, suspended in sync() or in a
\* sleep, or running.
Active(t) == t.pc \in {"created", "insync", "dispatch", "post", "sleep5", "sleep30"}

\* The tasks that issue, or will issue, sync requests.
ActiveLoops == LET S == {t \in TaskSet : Active(t)} IN BagCardinality([t \in S |-> tasks[t]])

\* No task is inside the block of lines 509-577, which has no await.
Quiet == \A t \in TaskSet : t.pc # "post"

\* Issue `self.client.sync(timeout=30000, since=self._sync_token)`, or leave
\* the loop when its condition is false.
LoopHead(t) ==
    IF LoopCondition'
    THEN /\ tasks' = Replace(t, [Task("insync") EXCEPT !.since = sync_token])
         /\ firstSince' = IF firstSince = Unset THEN sync_token ELSE firstSince
    ELSE /\ tasks' = Replace(t, Task("done"))
         /\ UNCHANGED firstSince

(* ------------------------------ actions ------------------------------- *)
\* add_message_callback (lines 632-635).
AddMessageCallback(cb) ==
    /\ Len(message_callbacks) < MaxCallbacks
    /\ message_callbacks' = Append(message_callbacks, cb)
    /\ UNCHANGED <<client, syncing, initialized, sync_token, initializing, tasks,
                   serverHead, crashes, returned, handled, prevCursor,
                   firstSince, lastNb>>
    /\ UNCHANGED <<pipeVars, closed>>

\* initialize() up to its first await (lines 36-65): the _initialized check
\* and the construction of the AsyncClient.
InitializeBegin ==
    /\ Quiet
    /\ ~initialized
    /\ initializing + BagCardinality(tasks) < MaxLoops
    /\ client' = "AsyncClient"
    /\ initializing' = initializing + 1
    /\ closed' = NotClosed
    /\ UNCHANGED <<syncing, initialized, sync_token, message_callbacks, tasks,
                   serverHead, crashes, returned, handled, prevCursor,
                   firstSince, lastNb>>
    /\ UNCHANGED pipeVars

\* initialize() after its last await (lines 110-116): schedule the sync
\* task and set _initialized.
InitializeFinish ==
    /\ Quiet
    /\ initializing > 0
    /\ initializing' = initializing - 1
    /\ tasks' = tasks (+) SetToBag({Task("created")})
    /\ initialized' = TRUE
    /\ closed' = NotClosed
    /\ callbacksAtInit' = Len(message_callbacks)
    /\ UNCHANGED <<client, syncing, sync_token, message_callbacks,
                   serverHead, crashes, returned, handled, prevCursor,
                   firstSince, lastNb>>
    /\ UNCHANGED <<lastEmit, recovery_key, importRuns, undecryptable, apiVars>>

\* initialize() failing: the store cannot be loaded (line 65) or the access
\* token is missing (line 80); lines 118-121.
InitializeFail ==
    /\ Quiet
    /\ initializing > 0
    /\ initializing' = initializing - 1
    /\ initialized' = FALSE
    /\ UNCHANGED <<client, syncing, sync_token, message_callbacks, tasks,
                   serverHead, crashes, returned, handled, prevCursor,
                   firstSince, lastNb>>
    /\ UNCHANGED <<pipeVars, closed>>

\* First step of a scheduled _start_syncing task (lines 493-507): set the
\* flag, test the loop condition, issue the first request.
TaskStart(t) ==
    /\ Quiet
    /\ t.pc = "created"
    /\ syncing' = TRUE
    /\ UNCHANGED client
    /\ LoopHead(t)
    /\ UNCHANGED <<initialized, sync_token, message_callbacks, initializing,
                   serverHead, crashes, returned, handled, prevCursor, lastNb>>
    /\ UNCHANGED <<pipeVars, closed>>

\* The task state after the server answered a request with the events
\* lo+1..serverHead and next_batch = serverHead.
Responded(lo) ==
    IF lo < serverHead
    THEN [Task("dispatch") EXCEPT !.nxt = lo + 1, !.hi = serverHead, !.nb = serverHead]
    ELSE [Task("post") EXCEPT !.nb = serverHead, !.step = 1]

\* The windows a request with this `since` can be answered with: everything
\* after `since`, or, for a request without `since`, the recent events the
\* server chooses to send.
Windows(since) == IF since = None THEN 0..serverHead ELSE {since}

\* The server answers a request with events.
SyncRespondOk(t, lo) ==
    /\ Quiet
    /\ t.pc = "insync"
    /\ lo \in Windows(t.since)
    /\ tasks' = Replace(t, Responded(lo))
    /\ UNCHANGED <<client, syncing, initialized, sync_token, message_callbacks,
                   initializing, serverHead, crashes, prevCursor,
                   firstSince, lastNb>>
    /\ UNCHANGED <<pipeVars, closed>>

\* The sync call ends without a usable response: it raises, it returns a
\* falsy value, or it returns a response that has no next_batch (and no
\* rooms).
SyncRespondBad(t, outcome) ==
    /\ Quiet
    /\ t.pc = "insync"
    /\ tasks' = Replace(t, IF outcome = "malformed"
                           THEN [Task("post") EXCEPT !.step = 1]
                           ELSE Task(AfterFailedSync(outcome)))
    /\ UNCHANGED <<client, syncing, initialized, sync_token, message_callbacks,
                   initializing, serverHead, crashes, returned, handled, prevCursor, firstSince, lastNb>>
    /\ UNCHANGED <<pipeVars, closed>>

\* Inside sync(): the library hands the next event of the response to its
\* handler.  An exception leaving the handler would leave sync() too and
\* reach `except Exception` at line 582.
Dispatch(t, ev) ==
    /\ Quiet
    /\ t.pc = "dispatch"
    /\ LET r == Handle(ev, message_callbacks) IN
       /\ tasks' = Replace(t,
                      IF r.exc THEN Task("sleep30")
                      ELSE IF t.nxt < t.hi THEN [t EXCEPT !.nxt = t.nxt + 1]
                      ELSE [t EXCEPT !.pc = "post", !.nxt = t.nxt + 1, !.step = 1])
       /\ UNCHANGED <<pipeVars, closed>>
    /\ UNCHANGED <<client, syncing, initialized, sync_token, message_callbacks,
                   initializing, serverHead, crashes, prevCursor,
                   firstSince, lastNb>>

\* One statement group of lines 509-577; after the last one the task is
\* suspended in `await asyncio.sleep(5)`.  t.hi > 0 says that the response
\* carried timeline events, which the "process" group walks over.
PostStep(t) ==
    /\ t.pc = "post"
    /\ IF RoundOrder[t.step] = "record"
       THEN /\ sync_token' = NextToken(sync_token, t.nb)
            /\ lastNb' = IF t.nb # None THEN t.nb ELSE lastNb
       ELSE UNCHANGED <<sync_token, lastNb>>
    /\ tasks' = Replace(t, IF t.step < Len(RoundOrder)
                           THEN [t EXCEPT !.step = t.step + 1]
                           ELSE Task("sleep5"))
    /\ UNCHANGED <<client, syncing, initialized, message_callbacks,
                   initializing, serverHead, crashes, returned, handled, prevCursor, firstSince>>
    /\ UNCHANGED <<pipeVars, closed>>

\* A sleep ends and the loop condition is tested again (line 500).
LoopWake(t) ==
    /\ Quiet
    /\ t.pc \in {"sleep5", "sleep30"}
    /\ UNCHANGED <<syncing, client>>
    /\ LoopHead(t)
    /\ UNCHANGED <<initialized, sync_token, message_callbacks,
                   initializing, serverHead, crashes, returned, handled, prevCursor, lastNb>>
    /\ UNCHANGED <<pipeVars, closed>>

\* The task is cancelled while suspended in sync() or in a sleep:
\* `except asyncio.CancelledError: break` (lines 579-581).
TaskCancel(t) ==
    /\ Quiet
    /\ t.pc \in {"insync", "dispatch", "sleep5", "sleep30"}
    /\ tasks' = Replace(t, Task("cancelled"))
    /\ UNCHANGED <<client, syncing, initialized, sync_token, message_callbacks,
                   initializing, serverHead, crashes, returned, handled, prevCursor, firstSince, lastNb>>
    /\ UNCHANGED <<pipeVars, closed>>

\* The event loop drops a task that has returned.
TaskReap(t) ==
    /\ Quiet
    /\ t.pc \in {"done", "cancelled"}
    /\ tasks' = tasks (-) SetToBag({t})
    /\ UNCHANGED <<client, syncing, initialized, sync_token, message_callbacks,
                   initializing, serverHead, crashes, returned, handled, prevCursor, firstSince, lastNb>>
    /\ UNCHANGED <<pipeVars, closed>>

\* A task that has issued requests and has not returned.
Running(t) == t.pc \in {"insync", "dispatch", "post", "sleep5", "sleep30"}

\* Variant: close() without the try / except around store.save().
CloseBodyUnguarded(cl, save) ==
    [syncing |-> FALSE, initialized |-> FALSE,
     exc |-> cl # "None" /\ save = "raise"]

\* close() (lines 714-736): both flags are cleared; with a client, the store
\* is saved inside try / except (lines 721-733) and the nio client is
\* closed, which ends its HTTP session if there is one.  The client object,
\* the cursor and the callback list are not touched.
CloseBody(cl, save) ==
    [syncing |-> FALSE, initialized |-> FALSE, exc |-> FALSE]

Close ==
    /\ Quiet
    /\ \E save \in StepOutcomes :
         LET r == CloseBody(client, save) IN
         /\ syncing' = r.syncing
         /\ initialized' = r.initialized
         /\ closed' = [n |-> IF closed.n < Len(CloseCalls) THEN closed.n + 1 ELSE closed.n,
                       running |-> \E t \in TaskSet : Running(t),
                       err |-> closed.err \/ r.exc]
    /\ UNCHANGED <<client, sync_token, message_callbacks, initializing, tasks,
                   serverHead, crashes, returned, handled, prevCursor,
                   firstSince, lastNb>>
    /\ UNCHANGED pipeVars

\* A new event reaches the server's timeline.
ServerAppend ==
    /\ Quiet
    /\ serverHead < MaxEvents
    /\ serverHead' = serverHead + 1
    /\ UNCHANGED <<client, syncing, initialized, sync_token, message_callbacks,
                   initializing, tasks, crashes, returned, handled, prevCursor, firstSince, lastNb>>
    /\ UNCHANGED <<pipeVars, closed>>

Init ==
    /\ client = "None"
    /\ syncing = FALSE
    /\ initialized = FALSE
    /\ sync_token = None
    /\ message_callbacks = <<>>
    /\ initializing = 0
    /\ tasks = EmptyBag
    /\ serverHead = 0
    /\ crashes = 0
    /\ returned = {}
    /\ handled = {}
    /\ lastEmit = NoEmit
    /\ prevCursor = None
    /\ firstSince = Unset
    /\ lastNb = None
    /\ recovery_key \in BOOLEAN
    /\ importRuns = 0
    /\ undecryptable = [s \in Senders |-> 0]
    /\ closed = NotClosed
    /\ callbacksAtInit = 0
    /\ send = NoSend
    /\ app = NewApp
    /\ crm = NewCrm
    /\ rooms = {}

\* The steps that leave the history variables returned / handled alone.
LoopStep ==
    \/ InitializeBegin
    \/ InitializeFinish
    \/ InitializeFail
    \/ \E t \in TaskSet : TaskStart(t)
    \/ \E t \in TaskSet, o \in {"raise", "empty", "malformed"} : SyncRespondBad(t, o)
    \/ \E t \in TaskSet : PostStep(t)
    \/ \E t \in TaskSet : LoopWake(t)
    \/ \E t \in TaskSet : TaskCancel(t)
    \/ \E t \in TaskSet : TaskReap(t)
    \/ Close
    \/ ServerAppend

\* The lifecycle and the sync loop of one process.  The loop does not depend
\* on the registered callbacks (a handler never lets an exception out, see
\* PipelineSpec), which are registered there.
Next ==
    \/ LoopStep
    \/ \E t \in TaskSet : \E lo \in 0..serverHead :
          SyncRespondOk(t, lo) /\ UNCHANGED <<returned, handled>>
    \/ \E t \in TaskSet, ev \in EventKinds :
          Dispatch(t, ev) /\ UNCHANGED <<returned, handled>>

Spec == Init /\ [][Next]_vars


(* --------------------------- event pipeline --------------------------- *)
\* nio calls the handler registered for the event's type with one event of
\* a sync response (lines 86-87, 245-284, 587-630).  before is the number of
\* events of this sender that had stayed undecrypted when the call began.
Deliver(ev) ==
    /\ LET r == Handle(ev, message_callbacks) IN
       lastEmit' = [called |-> TRUE, ev |-> ev, cbs |-> message_callbacks,
                    emitted |-> r.emitted, recv |-> r.recv,
                    exc |-> r.exc, caught |-> r.caught,
                    record |-> r.record, steps |-> r.steps,
                    before |-> undecryptable[ev.sender]]
    /\ UNCHANGED <<client, syncing, initialized, sync_token, message_callbacks,
                   initializing, tasks, serverHead, crashes, returned, handled,
                   prevCursor, firstSince, lastNb, recovery_key, closed,
                   callbacksAtInit, apiVars>>

\* The callback lists add_message_callback can have built.
CallbackLists == UNION {[1..n -> CallbackKinds] : n \in 0..MaxCallbacks}

\* The client right after initialize() has returned: the handlers are
\* registered with nio, client.user_id is set, the recovery key was imported
\* once if there is one (line 103), the sync task is scheduled; the
\* callbacks are those registered before initialize() (as main.py does).
PipelineInit ==
    /\ client = "AsyncClient"
    /\ syncing = FALSE
    /\ initialized = TRUE
    /\ sync_token = None
    /\ message_callbacks \in CallbackLists
    /\ initializing = 0
    /\ tasks = SetToBag({Task("created")})
    /\ serverHead = 0
    /\ crashes = 0
    /\ returned = {}
    /\ handled = {}
    /\ lastEmit = NoEmit
    /\ prevCursor = None
    /\ firstSince = Unset
    /\ lastNb = None
    /\ recovery_key \in BOOLEAN
    /\ importRuns = IF recovery_key THEN 1 ELSE 0
    /\ undecryptable = [s \in Senders |-> 0]
    /\ closed = NotClosed
    /\ callbacksAtInit = Len(message_callbacks)
    /\ send = NoSend
    /\ app = NewApp
    /\ crm = NewCrm
    /\ rooms = {}

PipelineNext ==
    \/ \E cb \in CallbackKinds : AddMessageCallback(cb)
    \/ \E ev \in EventKinds : Deliver(ev) /\ UNCHANGED <<importRuns, undecryptable>>

PipelineSpec == PipelineInit /\ [][PipelineNext]_vars

\* The event stayed undecrypted: a MegolmEvent for which no record was built.
Undecrypted(ev, r) == ev.type = "megolm" /\ ~r.emitted

\* Deliver, counting the runs of the backup unlock step and the events of
\* each sender that stayed undecrypted.
DeliverCounted(ev) ==
    /\ Deliver(ev)
    /\ LET r == Handle(ev, message_callbacks) IN
       /\ importRuns' = importRuns + Count(r.steps, "open_backup")
       /\ importRuns' <= MaxImports
       /\ undecryptable' = IF Undecrypted(ev, r)
                           THEN [undecryptable EXCEPT ![ev.sender] = @ + 1]
                           ELSE undecryptable
       /\ undecryptable'[ev.sender] <= MaxFailures

\* The handlers of an initialized client over a sequence of events, with
\* the history of the recovery actions.
RecoveryNext ==
    \E ev \in EventKinds : DeliverCounted(ev)

RecoverySpec == PipelineInit /\ [][RecoveryNext]_vars


(* ---------------------------- send_message ---------------------------- *)
\* What the client is for a caller of send_message: "never" before any
\* initialize(), "starting" while an initialize() call is under way,
\* "closed" after close() with no initialize() since, "open" otherwise.
Session ==
    IF client = "None" THEN "never"
    ELSE IF initializing > 0 THEN "starting"
    ELSE IF closed.n > 0 THEN "closed"
    ELSE "open"

\* Lines 640-642: `if not self.client: raise RuntimeError(...)`; otherwise
\* the call goes on to client.room_send (line 655).
SendCheck(cl) == IF cl = "None" THEN "not_connected" ELSE "room_send"

\* Variant: send_message clears the cursor (as if it refreshed a cache).
SendKeepsNothing(local) == [local EXCEPT !.sync_token = None]

\* The attributes of self after a step of send_message (lines 637-666): no
\* statement of it assigns one.
SendKeeps(local) == local

\* The attributes send_message could touch.
Local ==
    [sync_token |-> sync_token, syncing |-> syncing,
     initialized |-> initialized, message_callbacks |-> message_callbacks]

\* send_message up to its await (lines 639-655).
SendBegin ==
    /\ Quiet
    /\ send.pc = "idle"
    /\ LET c == SendCheck(client)
           l == SendKeeps(Local) IN
       /\ send' = [pc |-> IF c = "room_send" THEN "inflight" ELSE "idle",
                   session |-> Session, result |-> c]
       /\ sync_token' = l.sync_token
       /\ syncing' = l.syncing
       /\ initialized' = l.initialized
       /\ message_callbacks' = l.message_callbacks
    /\ UNCHANGED <<client, initializing, tasks, serverHead, crashes, returned,
                   handled, prevCursor, firstSince, lastNb, closed>>
    /\ UNCHANGED <<lastEmit, recovery_key, importRuns, undecryptable,
                   callbacksAtInit, app, crm, rooms>>

\* room_send returns or raises; send_message returns the response or logs
\* and re-raises (lines 661-666).
SendEnd(outcome) ==
    /\ Quiet
    /\ send.pc = "inflight"
    /\ LET l == SendKeeps(Local) IN
       /\ send' = [send EXCEPT !.pc = "idle",
                               !.result = IF outcome = "ok" THEN "sent" ELSE "failed"]
       /\ sync_token' = l.sync_token
       /\ syncing' = l.syncing
       /\ initialized' = l.initialized
       /\ message_callbacks' = l.message_callbacks
    /\ UNCHANGED <<client, initializing, tasks, serverHead, crashes, returned,
                   handled, prevCursor, firstSince, lastNb, closed>>
    /\ UNCHANGED <<lastEmit, recovery_key, importRuns, undecryptable,
                   callbacksAtInit, app, crm, rooms>>

\* The client used as main.py uses it (one initialize() call at a time, no
\* task from an earlier call left), with send_message calls from the
\* request handlers at any point.
SendNext ==
    \/ InitializeBegin /\ initializing = 0 /\ tasks = EmptyBag
    \/ InitializeFinish
    \/ InitializeFail
    \/ \E t \in TaskSet : TaskStart(t)
    \/ \E t \in TaskSet : \E lo \in 0..serverHead :
          SyncRespondOk(t, lo) /\ UNCHANGED <<returned, handled>>
    \/ \E t \in TaskSet, o \in {"raise", "empty", "malformed"} : SyncRespondBad(t, o)
    \/ \E t \in TaskSet, ev \in EventKinds :
          Dispatch(t, ev) /\ UNCHANGED <<returned, handled>>
    \/ \E t \in TaskSet : PostStep(t)
    \/ \E t \in TaskSet : LoopWake(t)
    \/ \E t \in TaskSet : TaskCancel(t)
    \/ \E t \in TaskSet : TaskReap(t)
    \/ Close
    \/ ServerAppend
    \/ SendBegin
    \/ \E o \in StepOutcomes : SendEnd(o)

SendSpec == Init /\ [][SendNext]_vars


(* ---------------------------- application ----------------------------- *)
\* Why an initialize() call ends: it runs to its end, load_store() raises
\* at line 65, or settings.matrix_access_token is empty at line 74.
InitializeCauses == {"ok", "store", "token"}

\* Variant: the failure is noticed after create_task (line 112).
InitializeOutcomeLate(cause) ==
    [task |-> TRUE, initialized |-> cause = "ok", raised |-> cause # "ok"]

\* How initialize() ends (lines 65-121): both failures raise before line
\* 112, so no task is scheduled; `except` clears _initialized and re-raises.
InitializeOutcome(cause) ==
    [task |-> cause = "ok", initialized |-> cause = "ok", raised |-> cause # "ok"]

\* The callbacks the decorated startup_event registers (main.py line 133).
\* The second startup_event (lines 171-217), which would add
\* debug_event_callback and process_message_for_crm, carries no decorator
\* and is never called.
StartupCallbacks == <<"store_message_callback">>

\* Whether a callback hands the record to process_matrix_message: only
\* process_message_for_crm does (main.py line 198); in
\* store_message_callback the call is a comment (lines 130-131).
CallsCrm(name) == name = "process_message_for_crm"

\* startup_event after `await matrix_client.initialize()` (main.py lines
\* 135-142): both `except` clauses only log, then line 142 logs "started
\* successfully" and the handler returns.
StartupResult(raised) == "started"

\* startup_event, lines 119-133: the callback is registered.
StartupRegister ==
    /\ app.state = "new"
    /\ Len(message_callbacks) < MaxCallbacks
    /\ message_callbacks' = message_callbacks \o [i \in 1..Len(StartupCallbacks) |-> "ok"]
    /\ app' = [app EXCEPT !.state = "registered", !.registered = StartupCallbacks]
    /\ UNCHANGED <<client, syncing, initialized, sync_token, initializing, tasks,
                   serverHead, crashes, returned, handled, prevCursor,
                   firstSince, lastNb, closed>>
    /\ UNCHANGED <<lastEmit, recovery_key, importRuns, undecryptable,
                   callbacksAtInit, send, crm, rooms>>

\* startup_event calls initialize() (main.py line 135), which runs up to
\* its first await (matrix_client.py lines 36-65).
StartupInitializeBegin ==
    /\ app.state = "registered"
    /\ ~initialized
    /\ client' = "AsyncClient"
    /\ initializing' = initializing + 1
    /\ app' = [app EXCEPT !.state = "initializing"]
    /\ UNCHANGED <<syncing, initialized, sync_token, message_callbacks, tasks,
                   serverHead, crashes, returned, handled, prevCursor,
                   firstSince, lastNb, closed>>
    /\ UNCHANGED <<lastEmit, recovery_key, importRuns, undecryptable,
                   callbacksAtInit, send, crm, rooms>>

\* initialize() ends and startup_event runs to its end.
StartupInitializeEnd(cause) ==
    /\ app.state = "initializing"
    /\ LET o == InitializeOutcome(cause) IN
       /\ initializing' = initializing - 1
       /\ tasks' = IF o.task THEN tasks (+) SetToBag({Task("created")}) ELSE tasks
       /\ initialized' = o.initialized
       /\ callbacksAtInit' = IF o.raised THEN callbacksAtInit ELSE Len(message_callbacks)
       /\ app' = [app EXCEPT !.state = StartupResult(o.raised), !.cause = cause,
                             !.initRaised = o.raised]
    /\ UNCHANGED <<client, syncing, sync_token, message_callbacks,
                   serverHead, crashes, returned, handled, prevCursor,
                   firstSince, lastNb, closed>>
    /\ UNCHANGED <<lastEmit, recovery_key, importRuns, undecryptable, send, crm, rooms>>

\* How client.store.save() can end at line 726: the store has no save
\* method, the call returns, it raises, or it never completes.
SaveOutcomes == {"absent", "ok", "raise", "hang"}

\* close() after line 726: an exception is caught at line 730 and
\* client.close() follows at line 735; the await at line 726 has no
\* timeout, so a save that never completes keeps close() suspended there.
CloseAfterSave(save) == IF save = "hang" THEN "blocked" ELSE "stopped"

\* shutdown_event calls close() (main.py line 233), which clears both flags
\* and reaches the store (matrix_client.py lines 717-726).
ShutdownBegin ==
    /\ Quiet
    /\ app.state = "started"
    /\ syncing' = FALSE
    /\ initialized' = FALSE
    /\ closed' = [n |-> IF closed.n < Len(CloseCalls) THEN closed.n + 1 ELSE closed.n,
                  running |-> \E t \in TaskSet : Running(t),
                  err |-> closed.err]
    /\ app' = [app EXCEPT !.state = IF client = "None" THEN "stopped" ELSE "saving"]
    /\ UNCHANGED <<client, sync_token, message_callbacks, initializing, tasks,
                   serverHead, crashes, returned, handled, prevCursor,
                   firstSince, lastNb>>
    /\ UNCHANGED <<lastEmit, recovery_key, importRuns, undecryptable,
                   callbacksAtInit, send, crm, rooms>>

\* The store answers, or does not, and close() goes on from line 726.
ShutdownSave(save) ==
    /\ Quiet
    /\ app.state = "saving"
    /\ app' = [app EXCEPT !.state = CloseAfterSave(save), !.save = save]
    /\ UNCHANGED <<client, syncing, initialized, sync_token, message_callbacks,
                   initializing, tasks, serverHead, crashes, returned, handled,
                   prevCursor, firstSince, lastNb, closed>>
    /\ UNCHANGED <<lastEmit, recovery_key, importRuns, undecryptable,
                   callbacksAtInit, send, crm, rooms>>

\* The application from its startup event to its shutdown event, with the
\* sync loop that initialize() may have scheduled.
AppNext ==
    \/ StartupRegister
    \/ StartupInitializeBegin
    \/ \E cause \in InitializeCauses : StartupInitializeEnd(cause)
    \/ \E t \in TaskSet : TaskStart(t)
    \/ \E t \in TaskSet : \E lo \in 0..serverHead :
          SyncRespondOk(t, lo) /\ UNCHANGED <<returned, handled>>
    \/ \E t \in TaskSet, o \in {"raise", "empty", "malformed"} : SyncRespondBad(t, o)
    \/ \E t \in TaskSet, ev \in EventKinds :
          Dispatch(t, ev) /\ UNCHANGED <<returned, handled>>
    \/ \E t \in TaskSet : PostStep(t)
    \/ \E t \in TaskSet : LoopWake(t)
    \/ ServerAppend
    \/ ShutdownBegin
    \/ \E save \in SaveOutcomes : ShutdownSave(save)

AppSpec == Init /\ [][AppNext]_vars


(* --------------------------- room creation ---------------------------- *)
\* The agent's own user id (client.user_id, line 76) and the counterparties.
AgentId == "@agent"

UserIds == {AgentId, "@alice", "@bob"}

\* The invitee arguments a caller can pass: None or a list of user ids.
InviteeLists ==
    {[none |-> TRUE, list |-> <<>>]} \cup
    {[none |-> FALSE, list |-> l] : l \in UNION {[1..n -> UserIds] : n \in 0..MaxInvitees}}

\* `invitees or []`
OrEmpty(invitees) == IF invitees.none THEN <<>> ELSE invitees.list

Range(seq) == {seq[i] : i \in 1..Len(seq)}

\* The dict display of lines 388-391: the agent's entry is written first,
\* then the entries of the comprehension, which replace an equal key.
PowerLevelUsers(user_id, invitees) ==
    [u \in {user_id} \cup Range(OrEmpty(invitees)) |->
        IF u \in Range(OrEmpty(invitees)) THEN 50 ELSE 100]

\* Variant: the room is created plain and the encryption event is sent as
\* a state event afterwards.
RoomCreatePlain(user_id, invitees) ==
    [invite |-> OrEmpty(invitees),
     initial_state |-> <<"m.room.history_visibility">>,
     users |-> PowerLevelUsers(user_id, invitees),
     later_state |-> <<"m.room.encryption">>]

\* The one request create_encrypted_room makes (lines 368-393, passed on
\* by create_room at lines 689-693): later_state lists the state events
\* the method sends once the room exists, of which there are none.
RoomCreate(user_id, invitees) ==
    [invite |-> OrEmpty(invitees),
     initial_state |-> <<"m.room.encryption", "m.room.history_visibility">>,
     users |-> PowerLevelUsers(user_id, invitees),
     later_state |-> <<>>]

\* create_encrypted_room: without a client the call raises (the arguments
\* read self.client.user_id, and create_room tests self.client at line
\* 685); otherwise the homeserver creates the room or answers with an
\* error, which leaves the method as an exception (lines 694, 398-400).
CreateEncryptedRoom(invitees, outcome) ==
    /\ Quiet
    /\ Cardinality(rooms) < MaxRooms
    /\ rooms' = IF client # "None" /\ outcome = "ok"
                THEN rooms \cup {RoomCreate(AgentId, invitees)}
                ELSE rooms
    /\ UNCHANGED <<client, syncing, initialized, sync_token, message_callbacks,
                   initializing, tasks, serverHead, crashes, returned, handled,
                   prevCursor, firstSince, lastNb, closed>>
    /\ UNCHANGED <<lastEmit, recovery_key, importRuns, undecryptable,
                   callbacksAtInit, send, app, crm>>

\* The client is initialized and closed, and rooms are created through it.
RoomNext ==
    \/ InitializeBegin /\ initializing = 0 /\ tasks = EmptyBag
    \/ InitializeFinish
    \/ InitializeFail
    \/ Close
    \/ \E invitees \in InviteeLists, outcome \in StepOutcomes :
          CreateEncryptedRoom(invitees, outcome)

RoomSpec == Init /\ [][RoomNext]_vars


(* ----------------------------- CRM bridge ----------------------------- *)
\* What process_matrix_message can be called with: valid says that the
\* dict has the fields MatrixMessageEvent requires (events.py lines 7-12).
MessageDicts == [valid : BOOLEAN, event_id : EventIds, room_id : RoomIds]

\* The dict a callback of the client would pass on: message_data has every
\* required field (lines 600-611, 258-268).
AsMessageDict(record) ==
    [valid |-> TRUE, event_id |-> record.event_id, room_id |-> record.room_id]

\* How the Odoo calls of one process_matrix_message call go: all return,
\* find_or_create_partner raises, create_ticket raises, add_ticket_message
\* raises (the last two only matter on the branch that makes the call).
OdooOutcomes == {"ok", "partner", "ticket", "message"}

\* Variant: the mapping is not consulted.
LookupNothing(c, room) == None

\* `self.room_ticket_mapping.get(event.room_id)` (line 27).
Lookup(c, room) == c.mapping[room]

\* Whether the try block is left by an exception: the dict does not parse
\* (line 22) or the Odoo call reached on this branch raises (lines 34, 38,
\* 50).
ProcessFails(data, odoo, ticket) ==
    \/ ~data.valid
    \/ odoo = "partner"
    \/ ticket = None /\ odoo = "ticket"
    \/ ticket # None /\ odoo = "message"

\* Variant: the mapping is written before create_ticket has returned.
OnFailureStored(c, data) ==
    [c EXCEPT !.mapping[data.room_id] = IF @ = None THEN Len(c.created) + 1 ELSE @,
              !.last = [kind |-> "fail", room |-> data.room_id,
                        ticket |-> None, raised |-> FALSE]]

\* `except Exception` (lines 64-69): the error is logged and a dict with
\* success False is returned; nothing was assigned before.
OnFailure(c, data) ==
    [c EXCEPT !.last = [kind |-> "fail", room |-> data.room_id,
                        ticket |-> None, raised |-> FALSE]]

\* process_matrix_message (message_service.py lines 18-69): the dict is
\* parsed; a room without a ticket gets a new ticket and the mapping is
\* stored, a room with a ticket gets a ticket message.  The event id is
\* read nowhere.  The body has no await (the Odoo client is synchronous),
\* so a call runs from start to end without another call in between.
ProcessMatrixMessage(c, data, odoo) ==
    LET counted == [c EXCEPT !.seen[data.event_id] = @ + 1]
        ticket == Lookup(c, data.room_id)
        new == Len(c.created) + 1
    IN
    IF ProcessFails(data, odoo, ticket) THEN OnFailure(counted, data)
    ELSE IF ticket = None
         THEN [counted EXCEPT !.created = Append(@, data.room_id),
                              !.mapping[data.room_id] = new,
                              !.effects[data.event_id] = @ + 1,
                              !.last = [kind |-> "create", room |-> data.room_id,
                                        ticket |-> new, raised |-> FALSE]]
         ELSE [counted EXCEPT !.effects[data.event_id] = @ + 1,
                              !.last = [kind |-> "add", room |-> data.room_id,
                                        ticket |-> ticket, raised |-> FALSE]]

\* POST /matrix/api/webhook with an m.room.message (routers/matrix.py
\* lines 46-65), served once the application has started.
MatrixWebhook(data, odoo) ==
    /\ app.state = "started"
    /\ crm.seen[data.event_id] < MaxDeliveries
    /\ crm' = ProcessMatrixMessage(crm, data, odoo)
    /\ UNCHANGED <<client, syncing, initialized, sync_token, message_callbacks,
                   initializing, tasks, serverHead, crashes, returned, handled,
                   prevCursor, firstSince, lastNb, closed>>
    /\ UNCHANGED <<lastEmit, recovery_key, importRuns, undecryptable,
                   callbacksAtInit, send, app, rooms>>

\* The sync loop of the started application hands an event to its handler;
\* a callback that calls process_matrix_message (CallsCrm) passes the
\* record on.
BridgeDeliver(ev) ==
    /\ app.state = "started"
    /\ initialized
    /\ crm.seen[ev.event_id] < MaxDeliveries
    /\ LET r == Handle(ev, message_callbacks)
           toCrm == /\ r.emitted
                    /\ \E i \in Range(r.recv) : CallsCrm(app.registered[i])
       IN
       /\ lastEmit' = [called |-> TRUE, ev |-> ev, cbs |-> message_callbacks,
                       emitted |-> r.emitted, recv |-> r.recv,
                       exc |-> r.exc, caught |-> r.caught,
                       record |-> r.record, steps |-> r.steps,
                       before |-> undecryptable[ev.sender]]
       /\ IF toCrm
          THEN \E odoo \in OdooOutcomes :
                  crm' = ProcessMatrixMessage(crm, AsMessageDict(CHOOSE d \in r.record : TRUE), odoo)
          ELSE UNCHANGED crm
    /\ UNCHANGED <<client, syncing, initialized, sync_token, message_callbacks,
                   initializing, tasks, serverHead, crashes, returned, handled,
                   prevCursor, firstSince, lastNb, closed>>
    /\ UNCHANGED <<recovery_key, importRuns, undecryptable,
                   callbacksAtInit, send, app, rooms>>

\* The started application: records come from the client's handlers and
\* from the webhook route.
BridgeNext ==
    \/ StartupRegister
    \/ StartupInitializeBegin
    \/ \E cause \in InitializeCauses : StartupInitializeEnd(cause)
    \/ \E ev \in EventKinds : BridgeDeliver(ev)
    \/ \E data \in MessageDicts, odoo \in OdooOutcomes : MatrixWebhook(data, odoo)

BridgeSpec == Init /\ [][BridgeNext]_vars


(* ---------------------------- CRM replies ----------------------------- *)
\* Ticket ids a reply can name: those Odoo can have handed out and one more.
TicketIds == 1..(Cardinality(RoomIds) + 1)

\* Variant: the first mapped room is taken, whatever its ticket.
RoomOfAny(c, ticket) ==
    LET R == {r \in RoomIds : c.mapping[r] # None} IN
    IF R = {} THEN "none" ELSE CHOOSE r \in R : \A q \in R : c.mapping[r] <= c.mapping[q]

\* The loop of lines 80-84: the room whose mapping entry is this ticket.
RoomOf(c, ticket) ==
    LET R == {r \in RoomIds : c.mapping[r] = ticket} IN
    IF R = {} THEN "none" ELSE CHOOSE r \in R : \A q \in R : c.mapping[r] <= c.mapping[q]

\* process_odoo_message (message_service.py lines 71-110): with a room,
\* send_message is awaited once (line 88); an exception of send_message
\* (no client, or room_send raising) is caught at line 105.
ProcessOdooMessage(c, ticket, cl, outcome) ==
    LET room == RoomOf(c, ticket) IN
    IF room = "none"
    THEN [ticket |-> ticket, tried |-> <<>>, sent |-> <<>>, success |-> FALSE]
    ELSE IF SendCheck(cl) = "not_connected"
    THEN [ticket |-> ticket, tried |-> <<>>, sent |-> <<>>, success |-> FALSE]
    ELSE [ticket |-> ticket, tried |-> <<room>>,
          sent |-> IF outcome = "ok" THEN <<room>> ELSE <<>>,
          success |-> outcome = "ok"]

\* The routes that call process_odoo_message: POST /crm/api/webhook
\* (routers/crm.py lines 37-73) and POST /crm/api/tickets/{id}/reply (lines
\* 75-91).
ReplyRoutes == {"webhook", "reply"}

\* The status the route answers with.  Both routes raise their
\* HTTPException for success False inside `try`, and `except Exception`
\* (lines 71-73, 90-91) turns it into a 500.
RouteStatus(route, success) ==
    IF success THEN 200 ELSE 500

\* One request on a reply route, served once the application has started.
OdooReply(route, ticket, outcome) ==
    /\ app.state = "started"
    /\ LET r == ProcessOdooMessage(crm, ticket, client, outcome) IN
       crm' = [crm EXCEPT !.reply = r @@ [route |-> route,
                                          status |-> RouteStatus(route, r.success)]]
    /\ UNCHANGED <<client, syncing, initialized, sync_token, message_callbacks,
                   initializing, tasks, serverHead, crashes, returned, handled,
                   prevCursor, firstSince, lastNb, closed>>
    /\ UNCHANGED <<lastEmit, recovery_key, importRuns, undecryptable,
                   callbacksAtInit, send, app, rooms>>

\* The started application between the two webhooks: chat messages come in
\* through the Matrix webhook, replies through the CRM routes.
CrmNext ==
    \/ StartupRegister
    \/ StartupInitializeBegin
    \/ \E cause \in InitializeCauses : StartupInitializeEnd(cause)
    \/ \E data \in MessageDicts, odoo \in OdooOutcomes : MatrixWebhook(data, odoo)
    \/ \E route \in ReplyRoutes, ticket \in TicketIds, outcome \in StepOutcomes :
          OdooReply(route, ticket, outcome)

CrmSpec == Init /\ [][CrmNext]_vars


(* ------------------------ webhook verification ------------------------ *)
\* settings.matrix_webhook_secret / settings.crm_webhook_secret: the empty
\* string when no secret is configured.
Secrets == {"", "k1", "k2"}

Bodies == {"b1", "b2"}

\* hmac.new(key, body, sha256).hexdigest(): a digest stands for the key and
\* the body it was computed from, so two digests are equal exactly when
\* both agree.
Hmac(key, body) == [key |-> key, body |-> body]

\* The signature header of a request: absent, or a digest somebody computed.
Signatures ==
    {[present |-> FALSE, digest |-> Hmac("", "b1")]} \cup
    {[present |-> TRUE, digest |-> Hmac(k, b)] : k \in Secrets, b \in Bodies}

\* The X-Matrix-Timestamp header: absent, an integer, or something int()
\* rejects.  The CRM route reads no timestamp.
Timestamps == {"none", "int", "junk"}

WebhookRoutes == {"matrix", "crm"}

\* verify_matrix_webhook (routers/matrix.py lines 16-44) and
\* verify_crm_webhook (routers/crm.py lines 15-35): without a secret every
\* request passes; with one, int() of a timestamp header may raise (Matrix
\* route only), and the digest is compared only `if x_signature`, so a
\* request without the header passes.
VerifyWebhook(route, secret, body, sig, ts) ==
    IF secret = "" THEN "accepted"
    ELSE IF route = "matrix" /\ ts = "junk" THEN "error"
    ELSE IF sig.present
         THEN IF sig.digest = Hmac(secret, body) THEN "accepted" ELSE "rejected"
         ELSE "accepted"

\* One request reaches a webhook route of the started application.
WebhookRequest(route, secret, body, sig, ts) ==
    /\ app.state = "started"
    /\ app' = [app EXCEPT !.webhook =
                  [route |-> route, secret |-> secret, body |-> body, sig |-> sig,
                   result |-> VerifyWebhook(route, secret, body, sig, ts)]]
    /\ UNCHANGED <<client, syncing, initialized, sync_token, message_callbacks,
                   initializing, tasks, serverHead, crashes, returned, handled,
                   prevCursor, firstSince, lastNb, closed>>
    /\ UNCHANGED <<lastEmit, recovery_key, importRuns, undecryptable,
                   callbacksAtInit, send, crm, rooms>>

VerifyNext ==
    \/ StartupRegister
    \/ StartupInitializeBegin
    \/ \E cause \in InitializeCauses : StartupInitializeEnd(cause)
    \/ \E route \in WebhookRoutes, secret \in Secrets, body \in Bodies,
          sig \in Signatures, ts \in Timestamps :
          WebhookRequest(route, secret, body, sig, ts)

VerifySpec == Init /\ [][VerifyNext]_vars


(* ------------------------- monitoring buffer -------------------------- *)
\* Variant: the newest entry is dropped instead of the oldest.
StoreMessageDropNewest(buffer, record) ==
    LET a == Append(buffer, record) IN
    IF Len(a) > BufferCap THEN SubSeq(a, 1, Len(a) - 1) ELSE a

\* store_message_callback (main.py lines 122-129): append, then pop(0)
\* when the list has grown past the cap.
StoreMessage(buffer, record) ==
    LET a == Append(buffer, record) IN
    IF Len(a) > BufferCap THEN Tail(a) ELSE a

\* A handler of the started application emits a record and
\* store_message_callback is among the callbacks that receive it.  The
\* record is told apart by its delivery number (app.delivered).
StoreDeliver(ev) ==
    /\ app.state = "started"
    /\ initialized
    /\ app.delivered < MaxRecords
    /\ LET r == Handle(ev, message_callbacks) IN
       /\ r.emitted
       /\ \E i \in Range(r.recv) : app.registered[i] = "store_message_callback"
    /\ app' = [app EXCEPT !.delivered = @ + 1,
                          !.recent_messages = StoreMessage(@, app.delivered + 1)]
    /\ UNCHANGED <<client, syncing, initialized, sync_token, message_callbacks,
                   initializing, tasks, serverHead, crashes, returned, handled,
                   prevCursor, firstSince, lastNb, closed>>
    /\ UNCHANGED <<lastEmit, recovery_key, importRuns, undecryptable,
                   callbacksAtInit, send, crm, rooms>>

BufferNext ==
    \/ StartupRegister
    \/ StartupInitializeBegin
    \/ \E cause \in InitializeCauses : StartupInitializeEnd(cause)
    \/ \E ev \in EventKinds : StoreDeliver(ev)

BufferSpec == Init /\ [][BufferNext]_vars


(* -------------------------- crash and restart ------------------------- *)
\* The process dies and is started again: a fresh MatrixClient() (lines
\* 25-32).  The server's timeline survives, the fields of the object do not;
\* nothing in the class writes _sync_token anywhere else.
Crash ==
    /\ crashes < MaxCrashes
    /\ crashes' = crashes + 1
    /\ client' = "None"
    /\ syncing' = FALSE
    /\ initialized' = FALSE
    /\ sync_token' = None
    /\ message_callbacks' = <<>>
    /\ initializing' = 0
    /\ tasks' = EmptyBag
    /\ prevCursor' = sync_token
    /\ firstSince' = Unset
    /\ lastNb' = None
    /\ lastEmit' = NoEmit
    /\ importRuns' = 0
    /\ undecryptable' = [s \in Senders |-> 0]
    /\ closed' = NotClosed
    /\ callbacksAtInit' = 0
    /\ send' = NoSend
    /\ UNCHANGED <<serverHead, returned, handled, recovery_key, app, crm, rooms>>

\* SyncRespondOk, recording the events the response carries.
SyncRespondOkLogged(t, lo) ==
    /\ SyncRespondOk(t, lo)
    /\ returned' = returned \cup ((lo + 1)..serverHead)
    /\ UNCHANGED handled

\* Dispatch, recording the event that reached its handler.
DispatchLogged(t, ev) ==
    /\ Dispatch(t, ev)
    /\ handled' = handled \cup {t.nxt}
    /\ UNCHANGED returned

\* Runs of the process separated by crashes, with the history of what the
\* server returned and what reached the pipeline.
CrashNext ==
    \/ LoopStep
    \/ \E t \in TaskSet : \E lo \in 0..serverHead : SyncRespondOkLogged(t, lo)
    \/ \E t \in TaskSet, ev \in EventKinds : DispatchLogged(t, ev)
    \/ Crash

CrashSpec == Init /\ [][CrashNext]_vars


(* ------------------------------- claims ------------------------------- *)
\* C1: an event whose sender is the agent's own user id, plaintext or
\* encrypted, is handed to no registered callback.
C1_SelfMessageSuppressed ==
    (lastEmit.called /\ lastEmit.ev.sender = "self") => lastEmit.recv = <<>>

\* C2: every emitted record, on the plaintext and on the decrypted path, is
\* received by every registered callback, whether or not a callback
\* registered earlier raised.
C2_CallbackIsolation ==
    (lastEmit.called /\ lastEmit.emitted) => lastEmit.recv = Indices(lastEmit.cbs)

\* C3: no exception raised by a callback, by decryption or by key recovery
\* leaves _on_message or _on_encrypted: every handler call returns normally.
C3_HandlersReturnNormally ==
    lastEmit.called => ~lastEmit.exc

\* C3 witness: a call of _on_encrypted in which recovery failed inside,
\* the retry decrypted the event, a callback raised on the record and the
\* handler still returned normally.
C3_Witness ==
    /\ lastEmit.called
    /\ lastEmit.ev.d1 = "raise"
    /\ lastEmit.ev.imp = "raise"
    /\ lastEmit.emitted
    /\ lastEmit.caught
    /\ ~lastEmit.exc

\* C4: across a crash no event is lost: an event that a sync response
\* carried and that has not reached its handler is still held by a task of
\* this run or still lies after the cursor, so that a later request asks for
\* it again.
C4_NoEventLost ==
    crashes > 0 =>
    \A e \in returned \ handled :
        \/ \E t \in TaskSet : t.pc = "dispatch" /\ t.nxt <= e /\ e <= t.hi
        \/ sync_token = None
        \/ sync_token < e

\* C5: when the previous run recorded a cursor, the first sync request of
\* the next run carries that cursor as `since`.
C5_ResumeFromCursor ==
    (crashes > 0 /\ prevCursor # None /\ firstSince # Unset) => firstSince = prevCursor

FailedRoundStep ==
    \E t \in TaskSet :
        \/ /\ t.pc = "insync"
           /\ \E o \in {"raise", "empty"} : tasks' = Replace(t, Task(AfterFailedSync(o)))
        \/ /\ t.pc = "post"
           /\ t.nb = None
           /\ tasks' # tasks

\* C7: a failed round leaves the cursor as it was.
C7_FailedRoundKeepsCursor ==
    [][FailedRoundStep => sync_token' = sync_token]_vars

\* C7 witness: a response without next_batch has passed the cursor update
\* while a cursor from an earlier round is set.
C7_Witness ==
    \E t \in TaskSet :
        /\ t.pc = "post"
        /\ t.nb = None
        /\ t.step = 2
        /\ sync_token # None

\* The tasks of tasks' that a step put into state u.
Gained(u) == CopiesIn(u, tasks') > CopiesIn(u, tasks)

\* C8: every request carries the next_batch of the last round that returned
\* one, and a cursor that is set is never cleared and never goes back.
C8_CursorMonotone ==
    [][ /\ \A u \in BagToSet(tasks') : (u.pc = "insync" /\ Gained(u)) => u.since = lastNb
        /\ sync_token # None => (sync_token' # None /\ sync_token' >= sync_token) ]_vars

\* C9: a loop is left only when its condition is false, that is after
\* close(); a sleeping task that wakes up while the flag is set issues the
\* next request, whatever made it sleep.
C9_LoopSurvivesFailure ==
    [][ /\ Gained(Task("done")) => ~syncing
        /\ \A t \in TaskSet :
              (t.pc \in {"sleep5", "sleep30"} /\ syncing /\ CopiesIn(t, tasks') < CopiesIn(t, tasks))
                 => \/ Gained([Task("insync") EXCEPT !.since = sync_token])
                    \/ Gained(Task("cancelled")) ]_vars

\* C9 witness: a round has failed with an exception and the task waits for
\* its next round, the flag still set.
C9_Witness ==
    \E t \in TaskSet : t.pc = "sleep30" /\ syncing

\* Tasks with a sync request in flight.
InFlight == LET S == {t \in TaskSet : t.pc = "insync"} IN BagCardinality([t \in S |-> tasks[t]])

\* C10: at most one sync loop has a request in flight.
C10_AtMostOneLoop ==
    InFlight <= 1

\* C11: once close() has run and initialize() has neither begun nor
\* finished since, the syncing flag is false and no task issues a sync
\* request.
C11_StoppedAfterClose ==
    [][ closed'.n > 0 =>
          /\ ~syncing'
          /\ \A u \in BagToSet(tasks') : u.pc = "insync" => ~Gained(u) ]_vars

\* C12: after a close() that found a loop running, with no initialize()
\* since, no new sync round is started.
C12_NoRoundAfterClose ==
    [][ closed.running =>
          \A u \in BagToSet(tasks') : u.pc = "insync" => ~Gained(u) ]_vars

\* A step of close(): the only step that adds to, or marks, closed.
CloseStep == closed' # closed /\ closed'.n > 0

C14_DecryptAtMostTwice ==
    (lastEmit.called /\ lastEmit.ev.type = "megolm") =>
        LET st == lastEmit.steps IN
        /\ Count(st, "decrypt") <= 2
        /\ Count(st, "import") <= 1
        /\ Count(st, "request_missing_keys") <= 1
        /\ Count(st, "decrypt") = 2 =>
              /\ lastEmit.ev.d1 = "raise"
              /\ \E i, j, k \in 1..Len(st) :
                    /\ i < j /\ j < k
                    /\ st[i] = "decrypt" /\ st[j] = "import" /\ st[k] = "decrypt"

\* C14 witness: the first attempt raised, recovery ran, the retry raised as
\* well and the handler stopped there.
C14_Witness ==
    /\ lastEmit.called
    /\ lastEmit.ev.type = "megolm"
    /\ lastEmit.ev.d2 = "raise"
    /\ Count(lastEmit.steps, "decrypt") = 2
    /\ Count(lastEmit.steps, "import") = 1

\* C15: with a recovery key configured, the backup unlock step runs at most
\* once in the life of the process.
C15_ImportAtMostOnce ==
    recovery_key => importRuns <= 1

\* C16: for every encrypted event that stays undecrypted a room-key request
\* is made.
C16_KeyRequestWhenUndecrypted ==
    (lastEmit.called /\ lastEmit.ev.type = "megolm" /\ ~lastEmit.emitted)
        => Count(lastEmit.steps, "request_room_key") >= 1

\* C17: from the third undecryptable event of a sender in a direct room on,
\* neither a room is created nor a key request made.
C17_RecoveryCap ==
    (/\ lastEmit.called
     /\ lastEmit.ev.type = "megolm"
     /\ lastEmit.ev.direct
     /\ lastEmit.ev.sender = "other"
     /\ ~lastEmit.emitted
     /\ lastEmit.before >= 2)
        => /\ Count(lastEmit.steps, "room_create") = 0
           /\ Count(lastEmit.steps, "request_room_key") = 0

\* C18: the first and the second undecryptable event of a sender in a
\* direct room each lead to one room creation and one notice sent.
C18_NewChannelFallback ==
    (/\ lastEmit.called
     /\ lastEmit.ev.type = "megolm"
     /\ lastEmit.ev.direct
     /\ lastEmit.ev.sender = "other"
     /\ ~lastEmit.emitted
     /\ lastEmit.before < 2)
        => /\ Count(lastEmit.steps, "room_create") = 1
           /\ Count(lastEmit.steps, "room_send") = 1

\* C19: a record built for a MegolmEvent holds the decrypted text,
\* decrypted = True and the id of the encrypted event; when decryption
\* fails (after the retry, if any) no record is built and no callback is
\* called.
C19_DecryptedOrNothing ==
    (lastEmit.called /\ lastEmit.ev.type = "megolm") =>
        /\ \A rec \in lastEmit.record :
              /\ rec.body = lastEmit.ev.plain
              /\ rec.decrypted = TRUE
              /\ rec.encrypted_event_id = lastEmit.ev.event_id
        /\ (\/ lastEmit.ev.d1 = "none"
            \/ (lastEmit.ev.d1 = "raise" /\ lastEmit.ev.d2 # "ok"))
              => (lastEmit.record = {} /\ lastEmit.recv = <<>>)

\* C19 witness: the retry decrypted the event and the record reached a
\* callback.
C19_Witness ==
    /\ lastEmit.called
    /\ lastEmit.ev.type = "megolm"
    /\ lastEmit.ev.d1 = "raise"
    /\ lastEmit.ev.d2 = "ok"
    /\ lastEmit.record # {}
    /\ Len(lastEmit.recv) > 0

\* C20: a plaintext message of another user in an unencrypted room gives
\* every registered callback one record with the event's id, room, sender
\* and body and with decrypted = False.
C20_PlaintextRecord ==
    (/\ lastEmit.called
     /\ lastEmit.ev.type = "text"
     /\ lastEmit.ev.sender = "other"
     /\ ~lastEmit.ev.room_encrypted
     /\ ~lastEmit.ev.dec)
        => /\ lastEmit.recv = Indices(lastEmit.cbs)
           /\ lastEmit.record =
                 {[event_id |-> lastEmit.ev.event_id, room_id |-> lastEmit.ev.room_id,
                   sender |-> lastEmit.ev.sender, body |-> lastEmit.ev.body,
                   decrypted |-> FALSE]}

\* C20 witness: such a message with two callbacks registered, the first of
\* which raises, on an event object that has the `decrypted` attribute.
C20_Witness ==
    /\ lastEmit.called
    /\ lastEmit.ev.type = "text"
    /\ lastEmit.ev.sender = "other"
    /\ ~lastEmit.ev.room_encrypted
    /\ lastEmit.ev.has_decrypted
    /\ ~lastEmit.ev.dec
    /\ lastEmit.cbs = <<"raise", "ok">>
    /\ lastEmit.recv = <<1, 2>>

\* C21: every emitted record is offered to the callbacks in the order in
\* which they were added, and every callback that was registered when
\* initialize() returned receives it.
C21_RegistrationOrder ==
    (lastEmit.called /\ lastEmit.emitted) =>
        /\ \A i \in 1..Len(lastEmit.recv) : lastEmit.recv[i] = i
        /\ Len(lastEmit.recv) >= callbacksAtInit

\* C22: a send_message call made when there is no active session (before
\* any initialize(), or after close()) ends with the not-connected error and
\* makes no network call.
C22_SendNeedsSession ==
    send.session \in {"never", "closed"} => send.result = "not_connected"

\* C23: no step of send_message, successful or not, changes the cursor,
\* the two flags, the callback list or the client object.
C23_SendFrame ==
    [][ send' # send =>
          UNCHANGED <<sync_token, syncing, initialized, message_callbacks, client>> ]_vars

\* C23 witness: a send_message call is suspended in room_send while a sync
\* round that follows a recorded cursor is handing its events out.
C23_Witness ==
    /\ send.pc = "inflight"
    /\ sync_token # None
    /\ syncing
    /\ \E t \in TaskSet : t.pc = "dispatch"

\* C24: an initialize() call that finds no access token, or cannot open the
\* store, raises, leaves _initialized false and schedules no sync task; no
\* sync request is issued afterwards.
C24_FailedInitializeStartsNothing ==
    app.cause \in {"store", "token"} =>
        /\ app.initRaised
        /\ ~initialized
        /\ tasks = EmptyBag
        /\ ~syncing
        /\ firstSince = Unset

\* The token is missing, startup is over and the server holds events that
\* no request asks for.
C24_Witness ==
    /\ app.cause = "token"
    /\ app.state = "started"
    /\ client = "AsyncClient"
    /\ serverHead > 0

\* C25: when initialize() raises during the startup event, the application
\* does not reach the state in which it reports itself started.
C25_FailedInitializeAbortsStartup ==
    app.initRaised => app.state # "started"

\* C28: close() never stays suspended in the store's save: whatever the
\* save does, close() goes on to client.close() and returns.
C28_CloseNeverHangs ==
    app.state # "blocked"
\* C26: every room created through create_encrypted_room carries the
\* encryption state event in the initial state of its creation request, and
\* no state event is sent for it afterwards.
C26_EncryptedFromCreation ==
    \A r \in rooms :
        /\ "m.room.encryption" \in Range(r.initial_state)
        /\ "m.room.encryption" \notin Range(r.later_state)

\* Two rooms exist, one created with invitees and one without.
C26_Witness ==
    /\ Cardinality(rooms) = MaxRooms
    /\ \E r \in rooms : r.invite # <<>>
    /\ \E r \in rooms : r.invite = <<>>

\* C27: in every room created through create_encrypted_room the agent's
\* level is 100 and each invited counterparty's level is strictly lower.
C27_AgentOutranksInvitees ==
    \A r \in rooms :
        /\ r.users[AgentId] = 100
        /\ \A u \in Range(r.invite) \ {AgentId} : r.users[u] < r.users[AgentId]
\* C29: a record delivered to process_matrix_message a second time changes
\* nothing in the CRM: for one event id at most one ticket is created or
\* ticket message added.
C29_DuplicateTolerated ==
    \A id \in EventIds : crm.effects[id] <= 1

\* C30: once the application has started, a record the client emits is
\* handed to process_matrix_message by one of the registered callbacks.
C30_EmittedReachesCrm ==
    (app.state = "started" /\ lastEmit.called /\ lastEmit.emitted) =>
        \E i \in Range(lastEmit.recv) : CallsCrm(app.registered[i])

\* C31: a sync call that ends in a transient failure (it raises a network
\* error, or yields an empty or malformed response) is followed by the short
\* delay: no task goes from a pending request straight into the 30 s sleep.
C31_ShortDelayAfterTransientFailure ==
    [][ \A t \in TaskSet :
            t.pc = "insync" => tasks' # Replace(t, Task("sleep30")) ]_vars

\* C32: a room gets at most one ticket: once a room has a ticket its
\* mapping entry never changes, no further ticket is created for it, and
\* every later message of the room is added to that ticket.
C32_OneTicketPerRoom ==
    [][ \A r \in RoomIds :
          /\ Cardinality({i \in 1..Len(crm'.created) : crm'.created[i] = r}) <= 1
          /\ crm.mapping[r] # None =>
                /\ crm'.mapping[r] = crm.mapping[r]
                /\ (crm'.seen # crm.seen /\ crm'.last.room = r /\ crm'.last.kind # "fail") =>
                      (crm'.last.kind = "add" /\ crm'.last.ticket = crm.mapping[r])
          /\ crm'.mapping[r] # None => crm'.created[crm'.mapping[r]] = r ]_vars

\* Both rooms have their ticket and the last call added a message to one.
C32_Witness ==
    /\ Len(crm.created) = Cardinality(RoomIds)
    /\ crm.last.kind = "add"
    /\ crm.last.ticket = crm.mapping[crm.last.room]

\* C33: a process_matrix_message call that fails returns success False
\* without raising and leaves room_ticket_mapping as it was.
C33_FailureKeepsMapping ==
    [][ (crm'.seen # crm.seen /\ crm'.last.kind = "fail") =>
            (~crm'.last.raised /\ crm'.mapping = crm.mapping) ]_vars

\* A call failed for a room that had no ticket, after another room got one.
C33_Witness ==
    /\ crm.last.kind = "fail"
    /\ crm.last.room \in RoomIds
    /\ crm.mapping[crm.last.room] = None
    /\ crm.created # <<>>

\* C34: process_odoo_message for ticket t sends exactly one message, into
\* the room whose message created ticket t; for a ticket without a room it
\* sends nothing and returns success False.
C34_ReplyRouting ==
    [][ crm'.reply # crm.reply =>
          LET t == crm'.reply.ticket IN
          IF t \in 1..Len(crm.created)
          THEN crm'.reply.sent = <<crm.created[t]>>
          ELSE crm'.reply.sent = <<>> /\ ~crm'.reply.success ]_vars

\* C34, amended: process_odoo_message for ticket t makes at most one send,
\* into the room whose message created ticket t, and returns success True
\* exactly when that send succeeded; for a ticket without a room it sends
\* nothing and returns success False.
C34_ReplyRoutingAmended ==
    [][ crm'.reply # crm.reply =>
          LET t == crm'.reply.ticket
              y == crm'.reply
          IN
          /\ y.sent \in {<<>>, y.tried}
          /\ y.success <=> y.sent # <<>>
          /\ IF t \in 1..Len(crm.created)
             THEN y.tried \in {<<>>, <<crm.created[t]>>}
             ELSE y.tried = <<>> ]_vars

\* A reply for the second ticket went into the room that created it.
C34_Witness ==
    /\ crm.reply.success
    /\ crm.reply.ticket = Len(crm.created)
    /\ Len(crm.created) = Cardinality(RoomIds)
    /\ crm.reply.sent = <<crm.created[crm.reply.ticket]>>

\* C36: the manual reply endpoint answers 400 for a ticket without a linked
\* room.
C36_MissingRoomIsClientError ==
    (crm.reply.route = "reply" /\ ~crm.reply.success /\ crm.reply.tried = <<>>) =>
        crm.reply.status = 400

\* C35: with a secret configured, a webhook request is accepted only if it
\* carries the HMAC of its body under that secret.
C35_SignatureRequired ==
    (app.webhook.route # "none" /\ app.webhook.secret # "" /\ app.webhook.result = "accepted") =>
        /\ app.webhook.sig.present
        /\ app.webhook.sig.digest = Hmac(app.webhook.secret, app.webhook.body)

\* C37: recent_messages never holds more than 100 entries, and they are
\* the most recently delivered records, oldest first.
C37_BufferBounded ==
    LET n == Len(app.recent_messages) IN
    /\ n <= 100
    /\ n = IF app.delivered < 100 THEN app.delivered ELSE 100
    /\ \A i \in 1..n : app.recent_messages[i] = app.delivered - n + i

\* More records were delivered than the buffer holds.
C37_Witness ==
    /\ app.delivered > Len(app.recent_messages)
    /\ Len(app.recent_messages) = 100
    /\ app.recent_messages[1] = app.delivered - 99

\* C38: the syncing flag is true exactly when a sync loop is running.
C38_FlagReflectsLoop ==
    syncing <=> \E t \in TaskSet : Running(t)

\* C39: a text message in an encrypted room whose event carries no
\* decryption marker reaches no callback, and a record of a text message
\* from an encrypted room is emitted only for a decrypted event.
C39_EncryptedRoomNeedsDecryption ==
    (lastEmit.called /\ lastEmit.ev.type = "text" /\ lastEmit.ev.room_encrypted) =>
        /\ ~lastEmit.ev.has_decrypted => (~lastEmit.emitted /\ lastEmit.recv = <<>>)
        /\ lastEmit.emitted => \A d \in lastEmit.record : d.decrypted
====
